---- MODULE Spec2Model ----
(***************************************************************************)
(* A model of InternalModel, the record control block of                   *)
(* addon/-record-data-private/system/model/internal-model.js: its          *)
(* lifecycle state machine (transitionTo / send and the                    *)
(* TransitionChainMap), facade materialization, deferred triggers,         *)
(* identity, staged attributes, the to-many relationship caches and the    *)
(* deferred destruction of the block.                                      *)
(*                                                                         *)
(* The state tree (./states), the model data (store._createModelData),     *)
(* ManyArray and the promise proxies are collaborators whose code is not   *)
(* part of internal-model.js; they are modelled at their interface.        *)
(***************************************************************************)
EXTENDS Integers, Sequences, FiniteSets, TLC

VARIABLES
  id,                 \* this.id: "null" or an id
  currentState,       \* this.currentState, a path below root
  record,             \* this._record: 0 is null, n > 0 the n-th facade created
  recState,           \* the facade's currentState property
  recAlive,           \* FALSE once the facade is destroyed or destroying
  isError,            \* this.isError
  error,              \* this.error: "null" or an error value
  isReloading,        \* this.isReloading
  isDematerializing,  \* this._isDematerializing
  doNotDestroy,       \* this._doNotDestroy
  scheduledDestroy,   \* this._scheduledDestroy: 0 is null, n > 0 the n-th timer
  isDestroying,       \* this.isDestroying
  isDestroyed,        \* this._isDestroyed
  inIdMap,            \* the store's identity map holds this block
  data,               \* model data: the canonical attribute values
  staged,             \* model data: the staged (dirty) attribute values
  manyArrayCache,     \* this._manyArrayCache: key -> 0 or a collection
  retainedCache,      \* this._retainedManyArrayCache: key -> 0 or a collection
  promisesCache,      \* this._relationshipPromisesCache: key -> wrapper
  arrays,             \* the collections created so far: "live" or "destroyed"
  wrappers,           \* how many promise wrappers were created
  fetchState,         \* the to-many fetches issued: "pending", "resolved", ...
  isStale,            \* key -> the relationship is marked stale
  isAsync,            \* key -> the relationship is configured async
  deferredTriggers,   \* this._deferredTriggers
  delivered,          \* the triggers the facades received, with the facade
  raised,             \* history: every trigger raised with triggerLater
  chainMap,           \* TransitionChainMap
  hooks,              \* which states define enter, exit and setup
  created,            \* how many facades were created
  timers,             \* the scheduled callbacks: timer -> "pending", ...
  reloads,            \* the promises of reload: the store's, then's, finally's
  belongsToProxies,   \* the PromiseBelongsTo wrappers created: promise, content
  op,                 \* the operation that ran last, with its arguments
  ret,                \* what it returned
  err,                \* what it threw, if anything
  log                 \* the calls it made on hooks and collaborators, in order

vars == <<id, currentState, record, recState, recAlive, isError, error,
          isReloading, isDematerializing, doNotDestroy, scheduledDestroy,
          isDestroying, isDestroyed, inIdMap, data, staged, manyArrayCache,
          retainedCache, promisesCache, arrays, wrappers, fetchState,
          isStale, isAsync, deferredTriggers, delivered, raised, chainMap,
          hooks, created, timers, reloads, belongsToProxies, op, ret, err, log>>

\* ---------------------------------------------------------------- bounds

MaxFacades == 2
MaxTriggers == 2
MaxArrays == 2
MaxChains == 3
MaxTimers == 2
MaxFetches == 2
MaxReloads == 2

\* ---------------------------------------------------------- small values

Ids == {"5", "6"}
NullId == "null"
Keys == {"name", "age"}
KeyOrder == <<"name", "age">>
Values == {"a", "b"}
RelKeys == {"r"}
RelKeyOrder == <<"r">>
TriggerNames == {"ready"}
Undefined == <<>>
Contexts == {Undefined, <<"name", "true">>, <<"name", "false">>}
NeverLoaded == "undefined"
NullError == "null"
Errors == {"e1"}

\* ------------------------------------------------------- the state tree

Root == <<>>

Leaves3 == {"uncommitted", "inFlight", "invalid"}

States ==
  {Root, <<"empty">>, <<"loading">>, <<"loaded">>, <<"loaded", "saved">>,
   <<"loaded", "created">>, <<"loaded", "updated">>, <<"deleted">>,
   <<"deleted", "saved">>}
  \cup {<<"loaded", "created", l>> : l \in Leaves3}
  \cup {<<"loaded", "updated", l>> : l \in Leaves3}
  \cup {<<"deleted", l>> : l \in Leaves3}

LeafStates == {s \in States : \A t \in States : Len(t) = Len(s) + 1 => SubSeq(t, 1, Len(s)) # s}

parentState(state) == SubSeq(state, 1, Len(state) - 1)

\* state[name] for a child state's name
HasChild(state, name) == Append(state, name) \in States

stateName(state) == <<"root">> \o state

Empty == <<"empty">>

Under(state, prefix) ==
  Len(state) >= Len(prefix) /\ SubSeq(state, 1, Len(prefix)) = prefix

StateIsDeleted(state) == Under(state, <<"deleted">>)
StateIsNew(state) == Under(state, <<"loaded", "created">>)
StateIsEmpty(state) == state = Empty

\* The hooks a state tree may define: only the ones the record states need,
\* or a tree where states of every depth have enter and setup hooks and
\* others have none.
SparseHooks ==
  [enter |-> {},
   exit  |-> {<<"loading">>},
   setup |-> {<<"loaded", "saved">>, <<"deleted">>, <<"deleted", "saved">>}]

MixedHooks ==
  [enter |-> {<<"loading">>, <<"loaded">>, <<"loaded", "created", "uncommitted">>,
              <<"loaded", "updated">>, <<"loaded", "updated", "inFlight">>,
              <<"deleted", "saved">>},
   exit  |-> {<<"loading">>, <<"loaded", "saved">>, <<"loaded", "created">>,
              <<"loaded", "created", "uncommitted">>, <<"deleted", "uncommitted">>},
   setup |-> {<<"loaded", "saved">>, <<"loaded", "created">>,
              <<"loaded", "created", "uncommitted">>, <<"loaded", "updated", "inFlight">>,
              <<"deleted">>, <<"deleted", "saved">>}]

\* ------------------------------------------------------------ the block

NoErr == [kind |-> "none", event |-> "", on |-> "", state |-> <<>>, ctx |-> <<>>]

Err(kind) == [kind |-> kind, event |-> "", on |-> "", state |-> <<>>, ctx |-> <<>>]

Ev(kind, st, a, n) == <<kind, st, a, n, <<>>>>
EvC(kind, st, a, context) == <<kind, st, a, 0, context>>

Ret(kind, n, v) == [kind |-> kind, n |-> n, v |-> v]
RetUndefined == Ret("undefined", 0, "")

Cur ==
  [id |-> id, currentState |-> currentState, record |-> record,
   recState |-> recState, recAlive |-> recAlive, isError |-> isError,
   error |-> error, isReloading |-> isReloading,
   isDematerializing |-> isDematerializing, doNotDestroy |-> doNotDestroy,
   scheduledDestroy |-> scheduledDestroy, isDestroying |-> isDestroying,
   isDestroyed |-> isDestroyed, inIdMap |-> inIdMap, data |-> data,
   staged |-> staged, manyArrayCache |-> manyArrayCache,
   retainedCache |-> retainedCache, promisesCache |-> promisesCache,
   arrays |-> arrays, wrappers |-> wrappers, fetchState |-> fetchState,
   isStale |-> isStale, isAsync |-> isAsync, deferredTriggers |-> deferredTriggers,
   delivered |-> delivered, raised |-> raised, chainMap |-> chainMap,
   hooks |-> hooks, created |-> created, timers |-> timers,
   reloads |-> reloads, belongsToProxies |-> belongsToProxies,
   ret |-> RetUndefined, err |-> NoErr, log |-> <<>>]

\* The operation `o` ran and left the block as `s`.
Becomes(o, s) ==
  /\ id' = s.id
  /\ currentState' = s.currentState
  /\ record' = s.record
  /\ recState' = s.recState
  /\ recAlive' = s.recAlive
  /\ isError' = s.isError
  /\ error' = s.error
  /\ isReloading' = s.isReloading
  /\ isDematerializing' = s.isDematerializing
  /\ doNotDestroy' = s.doNotDestroy
  /\ scheduledDestroy' = s.scheduledDestroy
  /\ isDestroying' = s.isDestroying
  /\ isDestroyed' = s.isDestroyed
  /\ inIdMap' = s.inIdMap
  /\ data' = s.data
  /\ staged' = s.staged
  /\ manyArrayCache' = s.manyArrayCache
  /\ retainedCache' = s.retainedCache
  /\ promisesCache' = s.promisesCache
  /\ arrays' = s.arrays
  /\ wrappers' = s.wrappers
  /\ fetchState' = s.fetchState
  /\ isStale' = s.isStale
  /\ isAsync' = s.isAsync
  /\ deferredTriggers' = s.deferredTriggers
  /\ delivered' = s.delivered
  /\ raised' = s.raised
  /\ chainMap' = s.chainMap
  /\ hooks' = s.hooks
  /\ created' = s.created
  /\ timers' = s.timers
  /\ reloads' = s.reloads
  /\ belongsToProxies' = s.belongsToProxies
  /\ op' = o
  /\ ret' = s.ret
  /\ err' = s.err
  /\ log' = s.log

Ok(s) == s.err.kind = "none"
Throw(s, e) == [s EXCEPT !.err = e]
Emit(s, ev) == [s EXCEPT !.log = Append(@, ev)]
Return(s, v) == [s EXCEPT !.ret = v]

hasRecord(s) == s.record # 0

toString(s) == s.id

\* store.recordArrayManager.recordDidChange(this)
updateRecordArrays(s) == Emit(s, Ev("recordDidChange", <<>>, "", 0))

\* ------------------------------------------------- TransitionChainMap

splitOnDot(name) == name

extractPivotName(name) == splitOnDot(name)[1]

\* `${state.stateName}->${name}`
TransitionMapIdOnlyName(state, name) == <<"->">> \o name

TransitionMapId(state, name) == stateName(state) \o <<"->">> \o name

NoState == <<"undefined">>

\* The loop over splitOnDot(name) of a cache miss: from `state`, one child
\* per segment, collecting the states that define enter and setup.
RECURSIVE WalkPath(_, _, _, _, _, _)
WalkPath(h, state, path, i, enters, setups) ==
  IF i > Len(path)
  THEN [setups |-> setups, enters |-> enters, state |-> state]
  ELSE IF ~HasChild(state, path[i])
       THEN [setups |-> setups, enters |-> enters, state |-> NoState]
       ELSE LET next == Append(state, path[i])
            IN WalkPath(h, next, path, i + 1,
                        IF next \in h.enter THEN Append(enters, next) ELSE enters,
                        IF next \in h.setup THEN Append(setups, next) ELSE setups)

\* do { if (state.exit) state.exit(this); state = state.parentState }
\* while (!state[pivotName]): the block after the exits, and the ancestor
\* the loop stopped at.
RECURSIVE ExitLoopCurrentOnly(_, _, _)
ExitLoopCurrentOnly(s, state, pivotName) ==
  LET s1 == IF state \in s.hooks.exit /\ state = s.currentState
            THEN Emit(s, Ev("exit", state, "", 0)) ELSE s
  IN IF state = Root
     THEN [blk |-> Throw(s1, Err("TypeError")), state |-> NoState]
     ELSE IF HasChild(parentState(state), pivotName)
          THEN [blk |-> s1, state |-> parentState(state)]
          ELSE ExitLoopCurrentOnly(s1, parentState(state), pivotName)

RECURSIVE ExitLoop(_, _, _)
ExitLoop(s, state, pivotName) ==
  LET s1 == IF state \in s.hooks.exit
            THEN Emit(s, Ev("exit", state, "", 0)) ELSE s
  IN IF state = Root
     THEN [blk |-> Throw(s1, Err("TypeError")), state |-> NoState]
     ELSE IF HasChild(parentState(state), pivotName)
          THEN [blk |-> s1, state |-> parentState(state)]
          ELSE ExitLoop(s1, parentState(state), pivotName)

RECURSIVE RunHooks(_, _, _, _)
RunHooks(s, kind, list, i) ==
  IF i > Len(list) THEN s
  ELSE RunHooks(Emit(s, Ev(kind, list[i], "", 0)), kind, list, i + 1)

\* this.currentState = state; if (this.hasRecord) set(this._record, 'currentState', state)
SetCurrentState(s, state) ==
  LET s1 == Emit([s EXCEPT !.currentState = state],
                 Ev("currentState", state, "", 0))
  IN IF hasRecord(s1)
     THEN Emit([s1 EXCEPT !.recState = state],
               Ev("record.currentState", state, "", s1.record))
     ELSE s1

\* The part of transitionTo after the plan is known.
FinishTransitionSetupsFirst(s, map) ==
  LET s1 == RunHooks(s, "setup", map.setups, 1)
      s2 == RunHooks(s1, "enter", map.enters, 1)
      s3 == SetCurrentState(s2, map.state)
  IN updateRecordArrays(s3)

FinishTransition(s, map) ==
  LET s1 == RunHooks(s, "enter", map.enters, 1)
      s2 == SetCurrentState(s1, map.state)
      s3 == RunHooks(s2, "setup", map.setups, 1)
  IN updateRecordArrays(s3)

transitionTo(s, name) ==
  LET pivotName == extractPivotName(name)
      transitionMapId == TransitionMapId(s.currentState, name)
      w == ExitLoop(s, s.currentState, pivotName)
  IN IF ~Ok(w.blk) THEN w.blk
     ELSE IF transitionMapId \in DOMAIN w.blk.chainMap
          THEN FinishTransition(
                 Emit(w.blk, Ev("TransitionChainMap.hit", <<>>, "", 0)),
                 w.blk.chainMap[transitionMapId])
          ELSE LET map == WalkPath(w.blk.hooks, w.state, splitOnDot(name), 1, <<>>, <<>>)
               IN IF map.state = NoState
                  THEN Throw(w.blk, Err("TypeError"))
                  ELSE FinishTransition(
                         Emit([w.blk EXCEPT !.chainMap = (transitionMapId :> map) @@ @],
                              Ev("TransitionChainMap.miss", <<>>, "", 0)),
                         map)

\* ----------------------------------------------------------- model data

Absent == "absent"

\* modelData.getAttr(key)
getAttributeValue(s, key) ==
  IF s.staged[key] # Absent THEN s.staged[key] ELSE s.data[key]

\* modelData.setDirtyAttribute(key, value): a value equal to the canonical
\* one leaves nothing staged
modelDataSetDirtyAttribute(s, key, value) ==
  Emit([s EXCEPT !.staged[key] = IF value = s.data[key] THEN Absent ELSE value],
       Ev("modelData.setDirtyAttribute", <<key>>, value, 0))

\* modelData.isAttrDirty(key)
isAttrDirty(s, key) == s.staged[key] # Absent /\ s.staged[key] # s.data[key]

dirtyKeysOf(s) == {k \in Keys : s.staged[k] # Absent}

\* modelData.hasChangedAttributes()
hasChangedAttributes(s) == dirtyKeysOf(s) # {}

\* modelData.rollbackAttributes(): every staged value is dropped
modelDataRollbackAttributes(s) ==
  Emit([s EXCEPT !.staged = [k \in Keys |-> Absent]],
       Ev("modelData.rollbackAttributes", <<>>, "", 0))

\* --------------------------------------------------- the deferred triggers

storeUpdateInternalModel(s) == Emit(s, Ev("store._updateInternalModel", <<>>, "", 0))

triggerLater(s, name) ==
  LET args == <<name, Len(s.raised) + 1>>
      s1 == [s EXCEPT !.deferredTriggers = Append(@, args),
                      !.raised = Append(@, args)]
  IN IF Len(s1.deferredTriggers) # 1 THEN s1
     ELSE storeUpdateInternalModel(s1)

RECURSIVE TriggerAll(_, _, _)
TriggerAll(s, triggers, i) ==
  IF i > Len(triggers) THEN s
  ELSE TriggerAll(
         Emit([s EXCEPT !.delivered = Append(@, <<triggers[i], s.record>>)],
              Ev("record.trigger", <<triggers[i][1]>>, "", triggers[i][2])),
         triggers, i + 1)

triggerDeferredTriggersKeepQueue(s) ==
  IF ~hasRecord(s) THEN s
  ELSE TriggerAll(s, s.deferredTriggers, 1)

triggerDeferredTriggers(s) ==
  IF ~hasRecord(s) THEN s
  ELSE [TriggerAll(s, s.deferredTriggers, 1) EXCEPT !.deferredTriggers = <<>>]

\* ------------------------------------------------- the states' handlers

Events ==
  {"loadingData", "loadedData", "pushedData", "becomeDirty", "willCommit",
   "didCommit", "becameInvalid", "becameError", "rolledBack", "deleteRecord",
   "unloadRecord", "notFound", "didSetProperty", "propertyWasReset",
   "becameValid", "reloadRecord"}

Noop == [kind |-> "noop", to |-> <<>>]
Goto(path) == [kind |-> "goto", to |-> path]
NoHandler == [kind |-> "none", to |-> <<>>]
Special(kind) == [kind |-> kind, to |-> <<>>]

\* What every state answers unless it says otherwise.
RootHandler(event) ==
  CASE event \in {"rolledBack", "propertyWasReset"} -> Noop
    [] event = "unloadRecord" -> Noop
    [] OTHER -> NoHandler

DirtyHandler(kindOfDirty, leaf, event) ==
  CASE leaf = "uncommitted" ->
         (CASE event = "didSetProperty" -> Special("didSetProperty")
            [] event \in {"loadingData", "becomeDirty"} -> Noop
            [] event = "propertyWasReset" ->
                 IF kindOfDirty = "updated" THEN Special("propertyWasReset") ELSE Noop
            [] event = "pushedData" ->
                 IF kindOfDirty = "updated" THEN Special("pushedDataIfClean")
                 ELSE Goto(<<"loaded", "updated", "uncommitted">>)
            [] event = "willCommit" -> Goto(<<"inFlight">>)
            [] event = "reloadRecord" -> Special("reloadRecord")
            [] event = "rolledBack" ->
                 IF kindOfDirty = "updated" THEN Goto(<<"loaded", "saved">>)
                 ELSE Goto(<<"deleted", "saved">>)
            [] event = "becameInvalid" -> Goto(<<"invalid">>)
            [] event = "deleteRecord" ->
                 IF kindOfDirty = "updated" THEN Goto(<<"deleted", "uncommitted">>)
                 ELSE Goto(<<"deleted", "saved">>)
            [] OTHER -> RootHandler(event))
    [] leaf = "inFlight" ->
         (CASE event = "didSetProperty" -> Special("didSetProperty")
            [] event \in {"becomeDirty", "pushedData", "willCommit"} -> Noop
            [] event = "unloadRecord" -> NoHandler
            [] event = "didCommit" -> Goto(<<"saved">>)
            [] event = "becameInvalid" -> Goto(<<"invalid">>)
            [] event = "becameError" -> Goto(<<"uncommitted">>)
            [] OTHER -> RootHandler(event))
    [] leaf = "invalid" ->
         (CASE event = "didSetProperty" -> Special("didSetProperty")
            [] event \in {"becameInvalid", "becomeDirty", "pushedData"} -> Noop
            [] event = "willCommit" -> Goto(<<"inFlight">>)
            [] event = "becameValid" -> Goto(<<"uncommitted">>)
            [] event = "rolledBack" ->
                 IF kindOfDirty = "updated" THEN Goto(<<"loaded", "saved">>)
                 ELSE Goto(<<"deleted", "saved">>)
            [] event = "deleteRecord" ->
                 IF kindOfDirty = "updated" THEN Goto(<<"deleted", "uncommitted">>)
                 ELSE Goto(<<"deleted", "saved">>)
            [] OTHER -> RootHandler(event))
    [] OTHER -> RootHandler(event)

\* currentState[name]: the handler of `event` in `state`
Handler(state, event) ==
  CASE state = <<"empty">> ->
         (CASE event = "loadingData" -> Goto(<<"loading">>)
            [] event = "loadedData" -> Goto(<<"loaded", "created", "uncommitted">>)
            [] event = "pushedData" -> Goto(<<"loaded", "saved">>)
            [] OTHER -> RootHandler(event))
    [] state = <<"loading">> ->
         (CASE event = "pushedData" -> Goto(<<"loaded", "saved">>)
            [] event = "becameError" -> Noop
            [] event = "notFound" -> Goto(<<"empty">>)
            [] OTHER -> RootHandler(event))
    [] state = <<"loaded", "saved">> ->
         (CASE event = "didSetProperty" -> Special("didSetProperty")
            [] event \in {"pushedData", "didCommit", "notFound", "loadingData"} -> Noop
            [] event = "becomeDirty" -> Goto(<<"updated", "uncommitted">>)
            [] event = "willCommit" -> Goto(<<"updated", "inFlight">>)
            [] event = "reloadRecord" -> Special("reloadRecord")
            [] event = "deleteRecord" -> Goto(<<"deleted", "uncommitted">>)
            [] OTHER -> RootHandler(event))
    [] Len(state) = 3 -> DirtyHandler(state[2], state[3], event)
    [] state = <<"deleted", "uncommitted">> ->
         (CASE event = "willCommit" -> Goto(<<"inFlight">>)
            [] event \in {"pushedData", "becomeDirty", "deleteRecord"} -> Noop
            [] event = "rolledBack" -> Goto(<<"loaded", "saved">>)
            [] OTHER -> RootHandler(event))
    [] state = <<"deleted", "inFlight">> ->
         (CASE event = "willCommit" -> Noop
            [] event = "unloadRecord" -> NoHandler
            [] event = "didCommit" -> Goto(<<"saved">>)
            [] event = "becameError" -> Goto(<<"uncommitted">>)
            [] event = "becameInvalid" -> Goto(<<"invalid">>)
            [] OTHER -> RootHandler(event))
    [] state = <<"deleted", "saved">> ->
         (CASE event \in {"willCommit", "didCommit", "pushedData"} -> Noop
            [] OTHER -> RootHandler(event))
    [] state = <<"deleted", "invalid">> ->
         (CASE event \in {"becameInvalid", "becomeDirty", "deleteRecord", "willCommit"} -> Noop
            [] event = "rolledBack" -> Goto(<<"loaded", "saved">>)
            [] event = "becameValid" -> Goto(<<"uncommitted">>)
            [] OTHER -> RootHandler(event))
    [] OTHER -> RootHandler(event)

\* --------------------------------------------------------- send

\* inspect(context), as the error message quotes it
inspect(context) == <<"{">> \o context \o <<"}">>

unhandledEvent(s, state, name, context) ==
  Throw(s, [kind |-> "UnhandledEvent", event |-> name, on |-> toString(s),
            state |-> stateName(state),
            ctx |-> IF context # Undefined
                    THEN <<"Called with">> \o inspect(context) ELSE <<>>])

RECURSIVE send(_, _, _)

\* currentState[name](this, context)
RunHandler(s, state, name, context) ==
  LET h == Handler(state, name)
      s1 == Emit(s, Ev("handler", state, name, 0))
  IN CASE h.kind = "noop" -> s1
       [] h.kind = "goto" -> transitionTo(s1, h.to)
       [] h.kind = "didSetProperty" ->
            IF context = Undefined THEN Throw(s1, Err("TypeError"))
            ELSE IF context[2] = "true" THEN send(s1, "becomeDirty", Undefined)
            ELSE send(s1, "propertyWasReset", Undefined)
       [] h.kind = "propertyWasReset" ->
            IF ~hasChangedAttributes(s1) THEN send(s1, "rolledBack", Undefined)
            ELSE s1
       [] h.kind = "pushedDataIfClean" ->
            IF ~hasChangedAttributes(s1)
            THEN transitionTo(s1, <<"loaded", "saved">>) ELSE s1
       [] OTHER -> s1

sendIgnoringUnhandled(s, name, context) ==
  IF Handler(s.currentState, name).kind = "none" THEN s
  ELSE RunHandler(s, s.currentState, name, context)

send(s, name, context) ==
  LET state == s.currentState
      s1 == Emit(s, EvC("send", state, name, context))
  IN IF Handler(state, name).kind = "none"
     THEN unhandledEvent(s1, state, name, context)
     ELSE RunHandler(s1, state, name, context)

\* ------------------------------------------------- identity and errors

setIdUnchecked(s, newId) ==
  LET s1 == [s EXCEPT !.id = newId]
  IN IF newId # s.id /\ hasRecord(s1)
     THEN Emit(s1, Ev("record.notifyPropertyChange", <<>>, "id", s1.record))
     ELSE s1

setId(s, newId) ==
  IF ~(s.id = NullId \/ s.id = newId \/ StateIsNew(s.currentState))
  THEN Throw(s, Err("IdentityConflict"))
  ELSE LET didChange == newId # s.id
           s1 == [s EXCEPT !.id = newId]
       IN IF didChange /\ hasRecord(s1)
          THEN Emit(s1, Ev("record.notifyPropertyChange", <<>>, "id", s1.record))
          ELSE s1

didError(s, e) ==
  LET s1 == [s EXCEPT !.error = e, !.isError = TRUE]
  IN IF hasRecord(s1)
     THEN Emit(s1, Ev("record.setProperties", <<"isError", "adapterError">>, e, s1.record))
     ELSE s1

didCleanError(s) ==
  LET s1 == [s EXCEPT !.error = NullError, !.isError = FALSE]
  IN IF hasRecord(s1)
     THEN Emit(s1, Ev("record.setProperties", <<"isError", "adapterError">>, NullError, s1.record))
     ELSE s1

\* ---------------------------------------------------- staged attributes

BoolStr(b) == IF b THEN "true" ELSE "false"

\* this.getAttributeValue(key), as setDirtyAttribute reads it
ReadAttribute(s, key) ==
  Emit(s, Ev("modelData.getAttr", <<key>>, getAttributeValue(s, key), 0))

\* The rest of setDirtyAttribute once the values are known to differ.
StageAndSendDirtyBefore(s, key, value) ==
  LET isDirty == isAttrDirty(s, key)
      s1 == modelDataSetDirtyAttribute(s, key, value)
      s2 == send(s1, "didSetProperty", <<key, BoolStr(isDirty)>>)
  IN IF Ok(s2) THEN Return(s2, Ret("value", 0, value)) ELSE s2

StageAndSend(s, key, value) ==
  LET s1 == modelDataSetDirtyAttribute(s, key, value)
      isDirty == isAttrDirty(s1, key)
      s2 == send(s1, "didSetProperty", <<key, BoolStr(isDirty)>>)
  IN IF Ok(s2) THEN Return(s2, Ret("value", 0, value)) ELSE s2

setDirtyAttributeDeletedLast(s, key, value) ==
  LET currentValue == getAttributeValue(s, key)
  IN IF currentValue # value
     THEN IF StateIsDeleted(s.currentState)
          THEN Throw(s, Err("DeletedRecordMutation"))
          ELSE StageAndSend(ReadAttribute(s, key), key, value)
     ELSE Return(ReadAttribute(s, key), Ret("value", 0, value))

setDirtyAttribute(s, key, value) ==
  IF StateIsDeleted(s.currentState)
  THEN Throw(s, Err("DeletedRecordMutation"))
  ELSE LET currentValue == getAttributeValue(s, key)
       IN IF currentValue # value
          THEN StageAndSend(ReadAttribute(s, key), key, value)
          ELSE Return(ReadAttribute(s, key), Ret("value", 0, value))

rollbackAttributesNotifyAll(s) ==
  LET s1 == modelDataRollbackAttributes(s)
      s2 == IF s1.isError THEN didCleanError(s1) ELSE s1
      s3 == send(s2, "rolledBack", Undefined)
  IN IF ~Ok(s3) THEN s3
     ELSE IF hasRecord(s3)
          THEN Emit(s3, Ev("record._notifyProperties", KeyOrder, "", s3.record))
          ELSE s3

rollbackAttributes(s) ==
  LET dirtyKeys == SelectSeq(KeyOrder, LAMBDA k : s.staged[k] # Absent)
      s1 == modelDataRollbackAttributes(s)
      s2 == IF s1.isError THEN didCleanError(s1) ELSE s1
      s3 == send(s2, "rolledBack", Undefined)
  IN IF ~Ok(s3) THEN s3
     ELSE IF hasRecord(s3) /\ Len(dirtyKeys) > 0
          THEN Emit(s3, Ev("record._notifyProperties", dirtyKeys, "", s3.record))
          ELSE s3

\* modelData.pushData(data): the canonical values become the payload's, and
\* the keys whose value changed are reported
ChangedByPush(s, payload) ==
  SelectSeq(KeyOrder, LAMBDA k : getAttributeValue(s, k) #
                                   (IF s.staged[k] # Absent THEN s.staged[k] ELSE payload[k]))

setupData(s, payload) ==
  LET changedKeys == ChangedByPush(s, payload)
      s1 == Emit([s EXCEPT !.data = payload,
                           !.staged = [k \in Keys |->
                              IF s.staged[k] = payload[k] THEN Absent ELSE s.staged[k]]],
                 Ev("modelData.pushData", <<>>, "", 0))
      s2 == IF hasRecord(s1)
            THEN Emit(s1, Ev("record._notifyProperties", changedKeys, "", s1.record))
            ELSE s1
  IN send(s2, "pushedData", Undefined)

\* ------------------------------------------------------- materialization

\* One initial property: `id` goes to setId, an attribute to
\* setDirtyAttribute, anything else into createOptions.
RECURSIVE ApplyProperties(_, _, _)
ApplyProperties(s, properties, i) ==
  IF i > Len(properties) \/ ~Ok(s) THEN s
  ELSE LET name == properties[i][1]
           propertyValue == properties[i][2]
       IN ApplyProperties(
            IF name = "id" THEN setId(s, propertyValue)
            ELSE IF name \in Keys
                 THEN [setDirtyAttribute(s, name, propertyValue) EXCEPT !.ret = RetUndefined]
                 ELSE s,
            properties, i + 1)

\* this._record = factory.create(createOptions)
CreateRecord(s, createOptions) ==
  Emit([s EXCEPT !.record = s.created + 1, !.created = s.created + 1,
                 !.recState = createOptions.currentState, !.recAlive = TRUE],
       Ev("create", createOptions.currentState, "", s.created + 1))

getRecordAlwaysCreates(s, properties) ==
  LET s1 == ApplyProperties(s, properties, 1)
  IN IF ~Ok(s1) THEN s1
     ELSE LET s2 == triggerDeferredTriggers(
                      CreateRecord(s1, [currentState |-> s.currentState]))
          IN Return(s2, Ret("record", s2.record, ""))

getRecordDuringTeardown(s, properties) ==
  IF s.record = 0
  THEN LET createOptions == [currentState |-> s.currentState]
           s1 == ApplyProperties(s, properties, 1)
       IN IF ~Ok(s1) THEN s1
          ELSE LET s2 == CreateRecord(s1, createOptions)
                   s3 == triggerDeferredTriggers(s2)
               IN Return(s3, Ret("record", s3.record, ""))
  ELSE Return(s, Ret("record", s.record, ""))

getRecord(s, properties) ==
  IF s.record = 0 /\ ~s.isDematerializing
  THEN LET createOptions == [currentState |-> s.currentState]
           s1 == ApplyProperties(s, properties, 1)
       IN IF ~Ok(s1) THEN s1
          ELSE LET s2 == CreateRecord(s1, createOptions)
                   s3 == triggerDeferredTriggers(s2)
               IN Return(s3, Ret("record", s3.record, ""))
  ELSE Return(s, Ret("record", s.record, ""))

resetRecord(s) ==
  [s EXCEPT !.record = 0, !.recAlive = FALSE, !.recState = Empty,
            !.isReloading = FALSE, !.error = NullError,
            !.currentState = Empty]

\* ---------------------------------------------------------------- reload

startedReloading(s) ==
  LET s1 == [s EXCEPT !.isReloading = TRUE]
  IN IF hasRecord(s1)
     THEN Emit(s1, Ev("record.isReloading", <<>>, "true", s1.record))
     ELSE s1

finishedReloading(s) ==
  LET s1 == [s EXCEPT !.isReloading = FALSE]
  IN IF hasRecord(s1)
     THEN Emit(s1, Ev("record.isReloading", <<>>, "false", s1.record))
     ELSE s1

Pending == "pending"
Resolved == "resolved"

\* A promise of reload: what the executor's promise, the promise of then and
\* the promise of finally (the one reload returns) settled with.
ReloadPromise(inner) == [inner |-> inner, after |-> Pending, outer |-> Pending]

\* reload up to its return: an exception of send inside the executor rejects
\* the promise instead of reaching the caller; a reloadRecord handler
\* resolves it with the store's promise, which is pending.
reload(s) ==
  LET s1 == startedReloading(s)
      s2 == send(s1, "reloadRecord", <<"resolve", "options">>)
      inner == IF Ok(s2) THEN Pending ELSE s2.err.kind
  IN Return([s2 EXCEPT !.err = NoErr, !.reloads = Append(@, ReloadPromise(inner))],
            Ret("promise", Len(s2.reloads) + 1, ""))

\* The callbacks of then, which makes every outcome a success.
reloadThenSwallows(s, n, outcome) ==
  LET s1 == IF outcome = Resolved THEN didCleanError(s) ELSE didError(s, outcome)
  IN [s1 EXCEPT !.reloads[n].inner = outcome, !.reloads[n].after = Resolved]

\* The callbacks of then: the promise settled with `outcome`.
reloadThen(s, n, outcome) ==
  LET s1 == IF outcome = Resolved THEN didCleanError(s) ELSE didError(s, outcome)
  IN [s1 EXCEPT !.reloads[n].inner = outcome, !.reloads[n].after = outcome]

\* The callback of finally; the promise reload returned settles as the
\* promise of then did.
reloadFinally(s, n) ==
  LET s1 == updateRecordArrays(finishedReloading(s))
  IN [s1 EXCEPT !.reloads[n].outer = s.reloads[n].after]

\* ----------------------------------------------- relationship collections

NoWrapper == [w |-> 0, promise |-> 0, content |-> 0]

DestroyArray(s, a) ==
  Emit([s EXCEPT !.arrays[a] = "destroyed"], Ev("manyArray.destroy", <<>>, "", a))

RECURSIVE DropPromises(_, _)
DropPromises(s, i) ==
  IF i > Len(RelKeyOrder) THEN s
  ELSE LET key == RelKeyOrder[i]
       IN DropPromises(
            IF s.promisesCache[key] # NoWrapper
            THEN Emit([s EXCEPT !.promisesCache[key] = NoWrapper],
                      Ev("promise.destroy", <<>>, key, s.promisesCache[key].w))
            ELSE s,
            i + 1)

RECURSIVE RetainManyArrays(_, _)
RetainManyArrays(s, i) ==
  IF i > Len(RelKeyOrder) THEN s
  ELSE LET key == RelKeyOrder[i]
       IN RetainManyArrays(
            IF s.manyArrayCache[key] # 0
            THEN [s EXCEPT !.retainedCache[key] = s.manyArrayCache[key],
                           !.manyArrayCache[key] = 0]
            ELSE s,
            i + 1)

RECURSIVE DestroyRetained(_, _)
DestroyRetained(s, i) ==
  IF i > Len(RelKeyOrder) THEN s
  ELSE LET key == RelKeyOrder[i]
       IN DestroyRetained(
            IF s.retainedCache[key] # 0
            THEN [DestroyArray(s, s.retainedCache[key]) EXCEPT !.retainedCache[key] = 0]
            ELSE s,
            i + 1)

getManyArrayKeepRetained(s, key) ==
  LET a == Len(s.arrays) + 1
  IN IF s.manyArrayCache[key] = 0
     THEN Return(Emit([s EXCEPT !.arrays = Append(@, "live"), !.manyArrayCache[key] = a],
                      Ev("ManyArray.create", <<>>, key, a)),
                 Ret("manyArray", a, ""))
     ELSE Return(s, Ret("manyArray", s.manyArrayCache[key], ""))

getManyArray(s, key) ==
  LET manyArray == s.manyArrayCache[key]
  IN IF ~(manyArray = 0 \/ s.retainedCache[key] = 0)
     THEN Throw(s, Err("Assertion"))
     ELSE LET a == Len(s.arrays) + 1
              s1 == IF manyArray = 0
                    THEN Emit([s EXCEPT !.arrays = Append(@, "live"),
                                        !.manyArrayCache[key] = a],
                              Ev("ManyArray.create", <<>>, key, a))
                    ELSE s
              s2 == IF s1.retainedCache[key] # 0
                    THEN [DestroyArray(s1, s1.retainedCache[key])
                            EXCEPT !.retainedCache[key] = 0]
                    ELSE s1
          IN Return(s2, Ret("manyArray", s2.manyArrayCache[key], ""))

\* store._findHasManyByJsonApiResource(...).then(...): a new pending promise
fetchAsyncHasMany(s, key, manyArray) ==
  Emit([s EXCEPT !.fetchState = Append(@, "pending")],
       Ev("store._findHasManyByJsonApiResource", <<>>, key, Len(s.fetchState) + 1))

getHasManyAlwaysWraps(s, key, anyUnloaded) ==
  LET s1 == getManyArray(s, key)
      manyArray == s1.ret.n
  IN IF ~Ok(s1) THEN s1
     ELSE IF s1.promisesCache[key] = NoWrapper
          THEN LET s2 == fetchAsyncHasMany(s1, key, manyArray)
                   promiseArray == [w |-> s2.wrappers + 1,
                                    promise |-> Len(s2.fetchState),
                                    content |-> manyArray]
               IN Return([s2 EXCEPT !.wrappers = @ + 1,
                                    !.promisesCache[key] = promiseArray],
                         Ret("promiseArray", promiseArray.w, ""))
          ELSE Return(s1, Ret("promiseArray", s1.promisesCache[key].w, ""))

getHasMany(s, key, anyUnloaded) ==
  LET s1 == getManyArray(s, key)
      manyArray == s1.ret.n
  IN IF ~Ok(s1) THEN s1
     ELSE IF s1.isAsync[key]
          THEN IF s1.promisesCache[key] = NoWrapper
               THEN LET s2 == fetchAsyncHasMany(s1, key, manyArray)
                        promiseArray == [w |-> s2.wrappers + 1,
                                         promise |-> Len(s2.fetchState),
                                         content |-> manyArray]
                    IN Return([s2 EXCEPT !.wrappers = @ + 1,
                                         !.promisesCache[key] = promiseArray],
                              Ret("promiseArray", promiseArray.w, ""))
               ELSE Return(s1, Ret("promiseArray", s1.promisesCache[key].w, ""))
          ELSE LET s2 == Emit(s1, Ev("manyArray.isLoaded", <<>>, key, manyArray))
               IN IF anyUnloaded THEN Throw(s2, Err("MissingAssociatedRecords"))
                  ELSE Return(s2, Ret("manyArray", manyArray, ""))

\* The to-one relationships of the model class and the `async` option of
\* each: the option may be left out.
BelongsToKeys == {"owner", "author", "editor"}

AsyncOption == [owner |-> "undefined", author |-> "true", editor |-> "false"]

\* What the model data holds for a to-one key: no resource object, a resource
\* with no data, a resource whose data names a loaded block, or one whose
\* data names a block that is still empty.
Resources == {"undefined", "null", "loaded", "empty"}

HasData(resource) == resource \in {"loaded", "empty"}

getBelongsToNullContent(s, key, resource) ==
  LET async == AsyncOption[key]
      isAsyncOption == IF async = "undefined" THEN TRUE ELSE async = "true"
      Related(x) == Emit(x, Ev("internalModel.getRecord", <<>>, key, 0))
  IN IF isAsyncOption
     THEN IF resource = "undefined"
          THEN Throw(s, Err("TypeError"))
          ELSE LET promise == Len(s.fetchState) + 1
                   s1 == Emit([s EXCEPT !.fetchState = Append(@, "pending")],
                              Ev("store._findBelongsToByJsonApiResource", <<>>, key,
                                 promise))
                   s3 == Emit(s1, Ev("PromiseBelongsTo.create", <<>>, key, promise))
               IN Return([s3 EXCEPT !.belongsToProxies =
                                      Append(@, [promise |-> promise,
                                                 content |-> "null"])],
                         Ret("promiseBelongsTo", promise, "null"))
     ELSE IF ~HasData(resource)
          THEN Return(s, Ret("null", 0, ""))
          ELSE LET s1 == Related(s)
               IN IF resource = "empty"
                  THEN Throw(s1, Err("MissingAssociatedRecords"))
                  ELSE Return(s1, Ret("relatedRecord", 0, key))

getBelongsTo(s, key, resource) ==
  LET async == AsyncOption[key]
      isAsyncOption == IF async = "undefined" THEN TRUE ELSE async = "true"
      \* internalModel.getRecord() of the related block
      Related(x) == Emit(x, Ev("internalModel.getRecord", <<>>, key, 0))
  IN IF isAsyncOption
     THEN IF resource = "undefined"
          THEN Throw(s, Err("TypeError"))
          ELSE LET promise == Len(s.fetchState) + 1
                   s1 == Emit([s EXCEPT !.fetchState = Append(@, "pending")],
                              Ev("store._findBelongsToByJsonApiResource", <<>>, key,
                                 promise))
                   s2 == IF HasData(resource) THEN Related(s1) ELSE s1
                   content == IF HasData(resource) THEN resource ELSE "null"
                   s3 == Emit(s2, Ev("PromiseBelongsTo.create", <<>>, key, promise))
               IN Return([s3 EXCEPT !.belongsToProxies =
                                      Append(@, [promise |-> promise,
                                                 content |-> content])],
                         Ret("promiseBelongsTo", promise, content))
     ELSE IF ~HasData(resource)
          THEN Return(s, Ret("null", 0, ""))
          ELSE LET s1 == Related(s)
               IN IF resource = "empty"
                  THEN Throw(s1, Err("MissingAssociatedRecords"))
                  ELSE Return(s1, Ret("relatedRecord", 0, key))

updateLoadingPromiseForHasMany(s, key, promise, content) ==
  LET loadingPromise == s.promisesCache[key]
  IN IF loadingPromise # NoWrapper
     THEN [s EXCEPT !.promisesCache[key] =
             [loadingPromise EXCEPT !.promise = promise,
                                    !.content = IF content # 0 THEN content ELSE @]]
     ELSE [s EXCEPT !.wrappers = @ + 1,
                    !.promisesCache[key] =
                      [w |-> s.wrappers + 1, promise |-> promise, content |-> content]]

IsPending(s, wrapper) == s.fetchState[wrapper.promise] = "pending"

reloadHasManyIgnoresPending(s, key) ==
  LET s1 == [s EXCEPT !.isStale[key] = TRUE]
      s2 == getManyArray(s1, key)
  IN IF ~Ok(s2) THEN s2
     ELSE LET s3 == fetchAsyncHasMany(s2, key, s2.ret.n)
              promise == Len(s3.fetchState)
          IN Return(updateLoadingPromiseForHasMany(s3, key, promise, 0),
                    Ret("promise", promise, ""))

reloadHasMany(s, key) ==
  LET loadingPromise == s.promisesCache[key]
  IN IF loadingPromise # NoWrapper /\ IsPending(s, loadingPromise)
     THEN Return(s, Ret("promiseArray", loadingPromise.w, ""))
     ELSE LET s1 == [s EXCEPT !.isStale[key] = TRUE]
              s2 == getManyArray(s1, key)
          IN IF ~Ok(s2) THEN s2
             ELSE LET s3 == fetchAsyncHasMany(s2, key, s2.ret.n)
                      promise == Len(s3.fetchState)
                  IN Return(updateLoadingPromiseForHasMany(s3, key, promise, 0),
                            Ret("promise", promise, ""))

notifyHasManyChange(s, key, anyUnloaded) ==
  IF hasRecord(s)
  THEN LET manyArray == s.manyArrayCache[key]
           s1 == IF manyArray # 0
                 THEN LET s0 == Emit(s, Ev("manyArray.retrieveLatest", <<>>, key, manyArray))
                      IN IF s0.promisesCache[key] # NoWrapper /\ anyUnloaded
                         THEN [s0 EXCEPT !.promisesCache[key] = NoWrapper]
                         ELSE s0
                 ELSE s
       IN updateRecordArrays(s1)
  ELSE s

CacheHas(cache, key) == key \in RelKeys /\ cache[key] # 0

notifyPropertyChange(s, key, didRemoveUnloadedModel) ==
  LET s1 == IF hasRecord(s)
            THEN updateRecordArrays(
                   Emit(s, Ev("record.notifyPropertyChange", <<>>, key, s.record)))
            ELSE s
      hasManyArray == CacheHas(s1.manyArrayCache, key) \/ CacheHas(s1.retainedCache, key)
      s2 == IF hasManyArray
            THEN LET s0 == Emit(s1, Ev("manyArray.removeUnloadedInternalModel", <<>>, key, 0))
                 IN IF CacheHas(s0.manyArrayCache, key) /\ didRemoveUnloadedModel
                    THEN [s0 EXCEPT !.retainedCache[key] = s0.manyArrayCache[key],
                                    !.manyArrayCache[key] = 0]
                    ELSE s0
            ELSE s1
  IN IF key \in RelKeys /\ s2.promisesCache[key] # NoWrapper
     THEN Emit([s2 EXCEPT !.promisesCache[key] = NoWrapper],
               Ev("promise.destroy", <<>>, key, s2.promisesCache[key].w))
     ELSE s2

\* ------------------------------------------------ teardown of the block

dematerializeRecord(s) ==
  LET s1 == [s EXCEPT !.isDematerializing = TRUE, !.doNotDestroy = FALSE]
      s2 == IF s1.record # 0
            THEN Emit([RetainManyArrays(DropPromises(s1, 1), 1) EXCEPT !.recAlive = FALSE],
                      Ev("record.destroy", <<>>, "", s1.record))
            ELSE s1
      s3 == resetRecord(s2)
      s4 == Emit([s3 EXCEPT !.staged = [k \in Keys |-> Absent],
                            !.data = [k \in Keys |-> NeverLoaded]],
                 Ev("modelData.unloadRecord", <<>>, "", 0))
  IN updateRecordArrays(s4)

destroyMarksFirst(s) ==
  LET s1 == [s EXCEPT !.isDestroying = TRUE]
      s2 == DestroyRetained(s1, 1)
  IN IF ~(s.record = 0 \/ ~s.recAlive)
     THEN Throw(s2, Err("DestroyWhileMaterialized"))
     ELSE [Emit([s2 EXCEPT !.inIdMap = FALSE],
                Ev("store._removeFromIdMap", <<>>, "", 0))
             EXCEPT !.isDestroyed = TRUE]

destroy(s) ==
  IF ~(s.record = 0 \/ ~s.recAlive)
  THEN Throw(s, Err("DestroyWhileMaterialized"))
  ELSE LET s1 == [s EXCEPT !.isDestroying = TRUE]
           s2 == DestroyRetained(s1, 1)
           s3 == Emit([s2 EXCEPT !.inIdMap = FALSE],
                      Ev("store._removeFromIdMap", <<>>, "", 0))
       IN [s3 EXCEPT !.isDestroyed = TRUE]

destroyFromModelDataKeepsCancellation(s) ==
  IF s.doNotDestroy THEN s
  ELSE destroy(s)

destroyFromModelData(s) ==
  IF s.doNotDestroy THEN [s EXCEPT !.doNotDestroy = FALSE]
  ELSE destroy(s)

unloadRecordAlwaysSchedules(s) ==
  IF s.isDestroyed THEN s
  ELSE LET s1 == send(s, "unloadRecord", Undefined)
       IN IF ~Ok(s1) THEN s1
          ELSE LET s2 == dematerializeRecord(s1)
               IN [s2 EXCEPT !.timers = Append(@, "pending"),
                             !.scheduledDestroy = Len(s2.timers) + 1]

\* run.backburner.schedule('destroy', this, '_checkForOrphanedInternalModels')
unloadRecord(s) ==
  IF s.isDestroyed THEN s
  ELSE LET s1 == send(s, "unloadRecord", Undefined)
       IN IF ~Ok(s1) THEN s1
          ELSE LET s2 == dematerializeRecord(s1)
               IN IF s2.scheduledDestroy = 0
                  THEN [s2 EXCEPT !.timers = Append(@, "pending"),
                                  !.scheduledDestroy = Len(s2.timers) + 1]
                  ELSE s2

cancelDestroyKeepTimer(s) ==
  IF s.isDestroyed THEN Throw(s, Err("Assertion"))
  ELSE [s EXCEPT !.doNotDestroy = TRUE, !.isDematerializing = FALSE,
                 !.scheduledDestroy = 0]

cancelDestroy(s) ==
  IF s.isDestroyed THEN Throw(s, Err("Assertion"))
  ELSE [s EXCEPT !.doNotDestroy = TRUE, !.isDematerializing = FALSE,
                 !.timers = IF s.scheduledDestroy # 0
                            THEN [@ EXCEPT ![s.scheduledDestroy] = "cancelled"]
                            ELSE @,
                 !.scheduledDestroy = 0]

checkForOrphanedInternalModels(s) ==
  [s EXCEPT !.isDematerializing = FALSE, !.scheduledDestroy = 0]

destroySync(s) ==
  LET s1 == IF s.isDematerializing THEN cancelDestroy(s) ELSE s
  IN IF ~Ok(s1) THEN s1
     ELSE LET s2 == checkForOrphanedInternalModels(s1)
          IN IF s2.isDestroyed \/ s2.isDestroying THEN s2
             ELSE destroy(s2)

\* -------------------------------------------------------------- actions

EmptyMap == [k \in {} |-> 0]

Op(name, a, b, props) == [name |-> name, a |-> a, b |-> b, props |-> props]

\* The paths the handlers hand to transitionTo.
Targets ==
  {Handler(st, e).to : st \in States, e \in Events} \ {<<>>}

PropertySets ==
  {Undefined, <<<<"id", "5">>>>, <<<<"name", "b">>>>,
   <<<<"id", "6">>, <<"name", "a">>>>}

Payloads == [Keys -> Values]

Constructed(ids, hookTables, asyncs) ==
  /\ id \in ids
  /\ currentState = Empty
  /\ record = 0
  /\ recState = Empty
  /\ recAlive = FALSE
  /\ isError = FALSE
  /\ error = NullError
  /\ isReloading = FALSE
  /\ isDematerializing = FALSE
  /\ doNotDestroy = FALSE
  /\ scheduledDestroy = 0
  /\ isDestroying = FALSE
  /\ isDestroyed = FALSE
  /\ inIdMap = TRUE
  /\ data = [k \in Keys |-> NeverLoaded]
  /\ staged = [k \in Keys |-> Absent]
  /\ manyArrayCache = [k \in RelKeys |-> 0]
  /\ retainedCache = [k \in RelKeys |-> 0]
  /\ promisesCache = [k \in RelKeys |-> NoWrapper]
  /\ arrays = <<>>
  /\ wrappers = 0
  /\ fetchState = <<>>
  /\ isStale = [k \in RelKeys |-> FALSE]
  /\ isAsync \in [RelKeys -> asyncs]
  /\ deferredTriggers = <<>>
  /\ delivered = <<>>
  /\ raised = <<>>
  /\ hooks \in hookTables
  /\ created = 0
  /\ timers = <<>>
  /\ reloads = <<>>
  /\ belongsToProxies = <<>>
  /\ op = Op("new", "", "", <<>>)
  /\ ret = RetUndefined
  /\ err = NoErr
  /\ log = <<>>

\* The plan transitionTo makes of the way from `state` to `name`.
PlanOf(h, state, name) ==
  LET w == ExitLoop([hooks |-> h, log |-> <<>>, err |-> NoErr], state,
                    extractPivotName(name))
  IN IF w.state = NoState
     THEN [setups |-> <<>>, enters |-> <<>>, state |-> NoState]
     ELSE WalkPath(h, w.state, splitOnDot(name), 1, <<>>, <<>>)

\* The transitions the handlers make.
HandlerPairs ==
  {<<q[1], Handler(q[1], q[2]).to>> :
     q \in {x \in LeafStates \X Events : Handler(x[1], x[2]).kind = "goto"}}
  \cup {<<<<"loaded", "updated", "uncommitted">>, <<"loaded", "saved">>>>}

PlannedPairs(h) ==
  {p \in HandlerPairs : PlanOf(h, p[1], p[2]).state # NoState}

\* TransitionChainMap once every transition of the state tree was made by
\* some block of the process.
WarmChainMap(h) ==
  [k \in {TransitionMapId(p[1], p[2]) : p \in PlannedPairs(h)} |->
     LET p == CHOOSE q \in PlannedPairs(h) : TransitionMapId(q[1], q[2]) = k
     IN PlanOf(h, p[1], p[2])]

\* The first block of the process: no transition was planned yet.
InitCold ==
  /\ Constructed({"5"}, {MixedHooks}, {TRUE})
  /\ chainMap = EmptyMap

Init ==
  /\ Constructed({NullId}, {SparseHooks}, {TRUE})
  /\ chainMap = WarmChainMap(hooks)

InitRel ==
  /\ Constructed({"5"}, {SparseHooks}, BOOLEAN)
  /\ chainMap = EmptyMap

\* The counters of the model stay within its bounds.
Bounded(t) ==
  /\ t.created <= MaxFacades
  /\ Len(t.raised) <= MaxTriggers
  /\ Len(t.arrays) <= MaxArrays
  /\ Len(t.timers) <= MaxTimers
  /\ Len(t.reloads) <= MaxReloads
  /\ Len(t.fetchState) <= MaxFetches
  /\ (t.chainMap # chainMap => Cardinality(DOMAIN t.chainMap) <= MaxChains)

Step(o, t) == Bounded(t) /\ Becomes(o, t)

DoTransitionTo ==
  \E name \in Targets :
    Step(Op("transitionTo", "", "", name), transitionTo(Cur, name))

DoSend ==
  \E name \in Events, context \in Contexts :
    Step(Op("send", name, "", context), send(Cur, name, context))

\* An event the current state has a handler for.
DoHandledSend ==
  \E name \in Events :
    /\ Handler(currentState, name).kind # "none"
    /\ Step(Op("send", name, "", <<"name", "true">>),
            send(Cur, name, <<"name", "true">>))

DoGetRecord ==
  \E properties \in PropertySets :
    Step(Op("getRecord", "", "", properties), getRecord(Cur, properties))

DoMaterialize ==
  Step(Op("getRecord", "", "", Undefined), getRecord(Cur, Undefined))

DoTriggerLater ==
  \E name \in TriggerNames :
    Step(Op("triggerLater", name, "", <<>>), triggerLater(Cur, name))

DoTriggerDeferredTriggers ==
  Step(Op("_triggerDeferredTriggers", "", "", <<>>), triggerDeferredTriggers(Cur))

DoSetId ==
  \E newId \in {NullId} \cup Ids :
    Step(Op("setId", newId, "", <<>>), setId(Cur, newId))

DoSetDirtyAttribute ==
  \E key \in Keys, value \in Values :
    Step(Op("setDirtyAttribute", key, value, <<>>), setDirtyAttribute(Cur, key, value))

DoRollbackAttributes ==
  Step(Op("rollbackAttributes", "", "", <<>>), rollbackAttributes(Cur))

DoSetupData ==
  \E payload \in Payloads :
    Step(Op("setupData", payload["name"], payload["age"], <<>>), setupData(Cur, payload))

\* The events the store sends as a record is created, saved and deleted.
LifecycleEvents ==
  {"loadedData", "pushedData", "willCommit", "didCommit", "becameInvalid", "becameError",
   "deleteRecord"}

DoLifecycle ==
  \E name \in LifecycleEvents :
    /\ Handler(currentState, name).kind # "none"
    /\ Step(Op("send", name, "", Undefined), send(Cur, name, Undefined))

\* The store creates the record, or loads it, or the application deletes it.
DoLoad ==
  \E name \in {"loadedData", "pushedData", "deleteRecord"} :
    /\ Handler(currentState, name).kind # "none"
    /\ Step(Op("send", name, "", Undefined), send(Cur, name, Undefined))

DoDidError ==
  \E e \in Errors : Step(Op("didError", e, "", <<>>), didError(Cur, e))

DoGetManyArray ==
  \E key \in RelKeys :
    Step(Op("getManyArray", key, "", <<>>), getManyArray(Cur, key))

DoGetHasMany ==
  \E key \in RelKeys, anyUnloaded \in BOOLEAN :
    Step(Op("getHasMany", key, BoolStr(anyUnloaded), <<>>),
         getHasMany(Cur, key, anyUnloaded))

DoGetBelongsTo ==
  \E key \in BelongsToKeys, resource \in Resources :
    Step(Op("getBelongsTo", key, resource, <<>>), getBelongsTo(Cur, key, resource))

DoReloadHasMany ==
  \E key \in RelKeys :
    Step(Op("reloadHasMany", key, "", <<>>), reloadHasMany(Cur, key))

DoNotifyHasManyChange ==
  \E key \in RelKeys, anyUnloaded \in BOOLEAN :
    Step(Op("notifyHasManyChange", key, BoolStr(anyUnloaded), <<>>),
         notifyHasManyChange(Cur, key, anyUnloaded))

DoNotifyPropertyChange ==
  \E key \in RelKeys \cup {"name"}, didRemoveUnloadedModel \in BOOLEAN :
    Step(Op("notifyPropertyChange", key, BoolStr(didRemoveUnloadedModel), <<>>),
         notifyPropertyChange(Cur, key, didRemoveUnloadedModel))

\* A promise proxy takes the value its promise resolved to as its content:
\* the fetch of a to-one resolves to the loaded related record.
proxyFulfilled(s, p) ==
  [s EXCEPT !.belongsToProxies =
     [i \in DOMAIN @ |-> IF @[i].promise = p
                         THEN [@[i] EXCEPT !.content = "loaded"]
                         ELSE @[i]]]

\* The promise of a fetch settles.
SettleFetch ==
  \E p \in 1..Len(fetchState), outcome \in {"resolved"} :
    /\ fetchState[p] = "pending"
    /\ Step(Op("settle", outcome, "", <<>>),
            Emit(proxyFulfilled([Cur EXCEPT !.fetchState[p] = outcome], p),
                 Ev("promise.settle", <<>>, outcome, p)))

DoDematerializeRecord ==
  Step(Op("dematerializeRecord", "", "", <<>>), dematerializeRecord(Cur))

DoUnloadRecord ==
  Step(Op("unloadRecord", "", "", <<>>), unloadRecord(Cur))

DoCancelDestroy ==
  Step(Op("cancelDestroy", "", "", <<>>), cancelDestroy(Cur))

DoDestroy ==
  Step(Op("destroy", "", "", <<>>), destroy(Cur))

DoDestroyFromModelData ==
  Step(Op("destroyFromModelData", "", "", <<>>), destroyFromModelData(Cur))

DoDestroySync ==
  Step(Op("destroySync", "", "", <<>>), destroySync(Cur))

\* The run loop reaches its destroy queue and runs a scheduled callback.
RunScheduledDestroy ==
  \E n \in 1..Len(timers) :
    /\ timers[n] = "pending"
    /\ Step(Op("_checkForOrphanedInternalModels", "", "", <<>>),
            checkForOrphanedInternalModels([Cur EXCEPT !.timers[n] = "ran"]))

DoReload ==
  Step(Op("reload", "", "", <<>>), reload(Cur))

\* The store's promise settles, or the executor had thrown, and the callbacks
\* of then run.
ReloadThen ==
  \E n \in 1..Len(reloads), outcome \in {Resolved} \cup Errors \cup {"UnhandledEvent"} :
    /\ reloads[n].after = Pending
    /\ reloads[n].inner \in {Pending, outcome}
    /\ (outcome = "UnhandledEvent" => reloads[n].inner = outcome)
    /\ Step(Op("reload.then", outcome, "", <<n>>), reloadThen(Cur, n, outcome))

ReloadFinally ==
  \E n \in 1..Len(reloads) :
    /\ reloads[n].after # Pending
    /\ reloads[n].outer = Pending
    /\ Step(Op("reload.finally", reloads[n].after, "", <<n>>), reloadFinally(Cur, n))

\* ------------------------------------------------------- specifications

\* Materialization and identity.
Next ==
  \/ DoGetRecord
  \/ DoTriggerLater
  \/ DoSetId
  \/ DoDematerializeRecord
  \/ DoCancelDestroy
  \/ DoLoad

\* The deferred triggers.
NextTrig ==
  \/ DoTriggerLater
  \/ DoTriggerDeferredTriggers
  \/ DoMaterialize
  \/ DoDematerializeRecord
  \/ DoCancelDestroy

SpecTrig == Init /\ [][NextTrig]_vars

Spec == Init /\ [][Next]_vars

\* The lifecycle state machine, from the first transition of the process.
NextFsm ==
  \/ DoTransitionTo
  \/ DoMaterialize

SpecFsm == InitCold /\ [][NextFsm]_vars

\* Event dispatch, handled or not.
NextSend ==
  \/ DoSend
  \/ DoMaterialize

SpecSend == Init /\ [][NextSend]_vars

\* The staged attributes.
NextAttr ==
  \/ DoSetDirtyAttribute
  \/ DoRollbackAttributes
  \/ DoSetupData
  \/ DoLifecycle
  \/ DoMaterialize
  \/ DoDidError

SpecAttr == Init /\ [][NextAttr]_vars

\* The to-many relationship caches.
NextRel ==
  \/ DoGetManyArray
  \/ DoGetHasMany
  \/ DoReloadHasMany
  \/ DoNotifyHasManyChange
  \/ DoNotifyPropertyChange
  \/ SettleFetch
  \/ DoMaterialize
  \/ DoDematerializeRecord
  \/ DoCancelDestroy
  \/ DoDestroy

SpecRel == InitRel /\ [][NextRel]_vars

\* Unloading, deferred destruction and its cancellation.
NextTear ==
  \/ DoUnloadRecord
  \/ DoCancelDestroy
  \/ DoDestroySync
  \/ DoDestroyFromModelData
  \/ DoDestroy
  \/ RunScheduledDestroy
  \/ DoDematerializeRecord
  \/ DoMaterialize
  \/ DoLoad

SpecTear == Init /\ [][NextTear]_vars

\* Reloading.
\* Access to the relationships, async or not, of a block in any stage of
\* its life.
NextAccess ==
  \/ DoGetHasMany
  \/ DoGetBelongsTo
  \/ SettleFetch
  \/ DoMaterialize
  \/ DoDematerializeRecord
  \/ DoDestroy

SpecAccess == InitRel /\ [][NextAccess]_vars

NextReload ==
  \/ DoReload
  \/ ReloadThen
  \/ ReloadFinally
  \/ DoMaterialize
  \/ DoLoad
  \/ DoDematerializeRecord

SpecReload == Init /\ [][NextReload]_vars

\* --------------------------------------------------------------- claims

Kinds(L, kind) == SelectSeq(L, LAMBDA e : e[1] = kind)
Count(L, kind) == Len(Kinds(L, kind))

\* The value of attribute `key` by the model data `dt` and `stg`.
AttrValue(dt, stg, key) == IF stg[key] # Absent THEN stg[key] ELSE dt[key]

\* C1: after every operation on the relationship caches, on the facade and
\* on the block, no relationship key is in both the active and the retained
\* collection cache.
C1_CachesDisjoint ==
  \A key \in RelKeys : ~(manyArrayCache[key] # 0 /\ retainedCache[key] # 0)

\* A collection was asked for while an older one was retained: the older one
\* was destroyed and a new one is active.
C1_Witness ==
  /\ op.name \in {"getManyArray", "getHasMany", "reloadHasMany"}
  /\ Count(log, "manyArray.destroy") = 1
  /\ Count(log, "ManyArray.create") = 1
  /\ manyArrayCache["r"] # 0

\* The place of an event in a transition.
Rank(e) ==
  CASE e[1] = "exit" -> 0
    [] e[1] \in {"TransitionChainMap.hit", "TransitionChainMap.miss"} -> 1
    [] e[1] = "enter" -> 2
    [] e[1] = "currentState" -> 3
    [] e[1] = "record.currentState" -> 4
    [] e[1] = "setup" -> 5
    [] e[1] = "recordDidChange" -> 6
    [] OTHER -> 7

\* The hooks of `kind` ran once each on the states of `on`, a shallower
\* state before a deeper one.
RootToLeaf(L, kind, on) ==
  LET ran == Kinds(L, kind)
  IN /\ {ran[i][2] : i \in 1..Len(ran)} = on
     /\ \A i, j \in 1..Len(ran) : i < j => Len(ran[i][2]) < Len(ran[j][2])

\* C2: a transitionTo that completes runs the enter hooks of the target
\* path root-to-leaf, then sets the current state to the terminal state (and
\* the facade's, when there is a facade), then runs the setup hooks
\* root-to-leaf, then notifies the membership tracker once.
C2_TransitionOrder ==
  (op.name = "transitionTo" /\ err.kind = "none") =>
    LET name == op.props
        descent == {st \in States : /\ Under(currentState, st)
                                    /\ Len(st) > Len(currentState) - Len(name)}
    IN /\ \A i, j \in 1..Len(log) : i < j => Rank(log[i]) <= Rank(log[j])
       /\ \A i \in 1..Len(log) : Rank(log[i]) < 7
       /\ RootToLeaf(log, "enter", descent \cap hooks.enter)
       /\ RootToLeaf(log, "setup", descent \cap hooks.setup)
       /\ Count(log, "currentState") = 1
       /\ Kinds(log, "currentState")[1][2] = currentState
       /\ SubSeq(currentState, Len(currentState) - Len(name) + 1,
                 Len(currentState)) = name
       /\ Count(log, "record.currentState") = (IF record # 0 THEN 1 ELSE 0)
       /\ (record # 0 => recState = currentState)
       /\ Count(log, "recordDidChange") = 1

\* A transition of a block with a facade that ran two enter hooks and two
\* setup hooks.
C2_Witness ==
  /\ op.name = "transitionTo"
  /\ err.kind = "none"
  /\ record # 0
  /\ Count(log, "enter") >= 2
  /\ Count(log, "setup") >= 2

\* What the block calls during a transition, the cache aside.
HookTrace(L) == SelectSeq(L, LAMBDA e : Rank(e) \in {0, 2, 3, 4, 5, 6})

\* transitionTo with no TransitionChainMap: the state tree is walked at
\* every call.
transitionToUncached(s, name) ==
  LET w == ExitLoop(s, s.currentState, extractPivotName(name))
      map == WalkPath(s.hooks, w.state, splitOnDot(name), 1, <<>>, <<>>)
  IN IF ~Ok(w.blk) THEN w.blk
     ELSE IF map.state = NoState THEN Throw(w.blk, Err("TypeError"))
     ELSE FinishTransition(w.blk, map)

\* C3: whatever was cached by earlier transitions, transitionTo calls the
\* same exit, enter and setup hooks in the same order and ends in the same
\* state as a transitionTo that walks the state tree afresh.
C3_CacheTransparent ==
  [][op'.name = "transitionTo" =>
       LET fresh == transitionToUncached(Cur, op'.props)
       IN /\ HookTrace(log') = HookTrace(fresh.log)
          /\ currentState' = fresh.currentState
          /\ recState' = fresh.recState
          /\ err' = fresh.err]_vars

\* A transition replayed from the cache that exited a state and ran a setup.
C3_Witness ==
  /\ op.name = "transitionTo"
  /\ Count(log, "TransitionChainMap.hit") = 1
  /\ Count(log, "exit") >= 1
  /\ Count(log, "setup") >= 1

\* Everything of the block but the record of the last operation.
blockVars ==
  <<id, currentState, record, recState, recAlive, isError, error,
    isReloading, isDematerializing, doNotDestroy, scheduledDestroy,
    isDestroying, isDestroyed, inIdMap, data, staged, manyArrayCache,
    retainedCache, promisesCache, arrays, wrappers, fetchState, isStale,
    isAsync, deferredTriggers, delivered, raised, chainMap, hooks, created,
    timers, reloads, belongsToProxies>>

\* C4: send of an event the current state has no handler for throws an
\* error naming the event, the block, the state and the context that was
\* supplied; no handler and no hook runs and the block is left as it was.
C4_UnhandledEvent ==
  [][(op'.name = "send" /\ Handler(currentState, op'.a).kind = "none") =>
       /\ err'.kind = "UnhandledEvent"
       /\ err'.event = op'.a
       /\ err'.on = id
       /\ err'.state = <<"root">> \o currentState
       /\ err'.ctx = (IF op'.props = Undefined THEN <<>>
                      ELSE <<"Called with", "{">> \o op'.props \o <<"}">>)
       /\ \A i \in 1..Len(log') : log'[i][1] = "send"
       /\ UNCHANGED blockVars]_vars

\* An event with a context was sent to a state that does not handle it.
C4_Witness ==
  /\ op.name = "send"
  /\ err.kind = "UnhandledEvent"
  /\ op.props # Undefined
  /\ currentState # Empty

\* C5: getRecord on a block that holds a facade (an earlier getRecord made
\* it and the block was not dematerialized since) returns that facade,
\* creates none, applies none of its initialProperties and flushes no trigger.
C5_GetRecordIdempotent ==
  [][(op'.name = "getRecord" /\ record # 0) =>
       /\ ret' = Ret("record", record, "")
       /\ err' = NoErr
       /\ log' = <<>>
       /\ UNCHANGED blockVars]_vars

\* The second getRecord came with initialProperties and with triggers queued.
C5_Witness ==
  /\ op.name = "getRecord"
  /\ op.props # Undefined
  /\ log = <<>>
  /\ ret.n # 0
  /\ ret.n = record
  /\ deferredTriggers # <<>>

\* The triggers the facades received, in the order they received them.
Received == [i \in 1..Len(delivered) |-> delivered[i][1]]

\* C6: the triggers delivered so far followed by the triggers still queued
\* are the triggers raised, in the order they were raised: none is lost, none
\* is delivered twice; and the getRecord that creates a facade delivers the
\* whole queue to that facade.
C6_TriggersOnceInOrder ==
  /\ [](Received \o deferredTriggers = raised)
  /\ [][(op'.name = "getRecord" /\ created' # created) =>
          /\ deferredTriggers' = <<>>
          /\ delivered' = delivered \o
               [i \in 1..Len(deferredTriggers) |-> <<deferredTriggers[i], record'>>]]_vars

\* Two triggers raised with no facade were delivered by the getRecord that
\* created the facade.
C6_Witness ==
  /\ op.name = "getRecord"
  /\ Count(log, "record.trigger") = 2
  /\ Len(delivered) = 2
  /\ deferredTriggers = <<>>

IdNotifications(L) ==
  Len(SelectSeq(L, LAMBDA e : e[1] = "record.notifyPropertyChange" /\ e[3] = "id"))

\* C7: setId(id) succeeds exactly when the current id is null, equals id, or
\* the block is in a new state; a refused call throws IdentityConflict and
\* leaves the id; a call that changes the id of a block with a facade
\* notifies the facade's id once, any other call notifies nothing.
C7_SetId ==
  [][op'.name = "setId" =>
       IF id = NullId \/ id = op'.a \/ StateIsNew(currentState)
       THEN /\ err' = NoErr
            /\ id' = op'.a
            /\ IdNotifications(log') = (IF op'.a # id /\ record # 0 THEN 1 ELSE 0)
            /\ Len(log') = IdNotifications(log')
       ELSE /\ err'.kind = "IdentityConflict"
            /\ id' = id
            /\ log' = <<>>]_vars

\* setId("6") was refused on a loaded block whose id was set to "5".
C7_Witness ==
  /\ op.name = "setId"
  /\ op.a = "6"
  /\ err.kind = "IdentityConflict"
  /\ id = "5"
  /\ currentState = <<"loaded", "saved">>
  /\ record # 0

\* C8 as stated: in every lifecycle state, setDirtyAttribute with the value
\* the attribute has is a no-op that returns normally.
C8_NoOpInEveryState ==
  [][(op'.name = "setDirtyAttribute" /\ AttrValue(data, staged, op'.a) = op'.b) =>
       /\ err' = NoErr
       /\ Count(log', "modelData.setDirtyAttribute") = 0
       /\ Count(log', "send") = 0
       /\ UNCHANGED blockVars]_vars

\* C8, amended: setDirtyAttribute with the value the attribute has stages
\* nothing, sends no event and leaves the lifecycle state in every state; it
\* returns the value in a state that is not deleted and throws
\* DeletedRecordMutation in a deleted state.
C8_NoOpUnlessDeleted ==
  [][(op'.name = "setDirtyAttribute" /\ AttrValue(data, staged, op'.a) = op'.b) =>
       /\ Count(log', "modelData.setDirtyAttribute") = 0
       /\ Count(log', "send") = 0
       /\ UNCHANGED blockVars
       /\ IF StateIsDeleted(currentState)
          THEN err'.kind = "DeletedRecordMutation"
          ELSE err' = NoErr /\ ret' = Ret("value", 0, op'.b)]_vars

\* The attribute of a deleted record was set to the value it has.
C8_Witness ==
  /\ op.name = "setDirtyAttribute"
  /\ err.kind = "DeletedRecordMutation"
  /\ AttrValue(data, staged, op.a) = op.b

\* C9: setDirtyAttribute with another value than the attribute has throws
\* DeletedRecordMutation in a deleted state, staging nothing and sending
\* nothing; in any other state it stages the value and sends didSetProperty
\* once, with the dirty flag the attribute has once the value is staged.
C9_SetDirtyAttribute ==
  [][(op'.name = "setDirtyAttribute" /\ AttrValue(data, staged, op'.a) # op'.b) =>
       IF StateIsDeleted(currentState)
       THEN /\ err'.kind = "DeletedRecordMutation"
            /\ log' = <<>>
            /\ UNCHANGED blockVars
       ELSE /\ AttrValue(data', staged', op'.a) = op'.b
            /\ data' = data
            /\ \A k \in Keys \ {op'.a} : staged'[k] = staged[k]
            /\ Count(log', "modelData.setDirtyAttribute") = 1
            /\ LET sent == SelectSeq(log', LAMBDA e : e[1] = "send" /\ e[3] = "didSetProperty")
               IN /\ Len(sent) = 1
                  /\ sent[1][5] = <<op'.a, BoolStr(op'.b # data[op'.a])>>]_vars

\* A staged attribute was set back to its canonical value: the event says
\* it is not dirty.
C9_Witness ==
  /\ op.name = "setDirtyAttribute"
  /\ err.kind = "none"
  /\ \E i \in 1..Len(log) : log[i][1] = "send" /\ log[i][5] = <<op.a, "false">>

\* The value setDirtyAttribute read before it staged the new one.
ValueBefore(L) == Kinds(L, "modelData.getAttr")[1][3]

\* C10 as stated: setDirtyAttribute(k, v) followed by rollbackAttributes
\* leaves k at the value it had before the mutation.
C10_RestoresValueBefore ==
  [][(op.name = "setDirtyAttribute" /\ err.kind = "none"
        /\ op'.name = "rollbackAttributes") =>
       /\ AttrValue(data', staged', op.a) = ValueBefore(log)
       /\ staged'[op.a] = Absent]_vars

\* C10, amended: setDirtyAttribute(k, v) followed by rollbackAttributes
\* leaves k at its canonical value, which is the value before the mutation
\* exactly when nothing was staged for k before it, and k not dirty; every
\* rollbackAttributes leaves the error state clear, sends rolledBack once and
\* notifies the facade, when there is one, of exactly the keys that had a
\* staged value.
C10_RollbackRestoresCanonical ==
  [][op'.name = "rollbackAttributes" =>
       /\ (op.name = "setDirtyAttribute" /\ err.kind = "none") =>
            /\ AttrValue(data', staged', op.a) = data[op.a]
            /\ staged'[op.a] = Absent
            /\ (AttrValue(data', staged', op.a) = ValueBefore(log))
                 <=> (ValueBefore(log) = data[op.a])
       /\ data' = data
       /\ \A k \in Keys : staged'[k] = Absent
       /\ isError' = FALSE
       /\ error' = NullError
       /\ err' = NoErr
       /\ Len(SelectSeq(log', LAMBDA e : e[1] = "send" /\ e[3] = "rolledBack")) = 1
       /\ LET reverted == SelectSeq(KeyOrder, LAMBDA k : staged[k] # Absent)
              notified == Kinds(log', "record._notifyProperties")
          IN IF record # 0 /\ reverted # <<>>
             THEN Len(notified) = 1 /\ notified[1][2] = reverted
             ELSE notified = <<>>]_vars

\* A rollback reverted the one key of two that was staged, notified the
\* facade of it and cleared the error.
C10_Witness ==
  /\ op.name = "rollbackAttributes"
  /\ Count(log, "record._notifyProperties") = 1
  /\ Kinds(log, "record._notifyProperties")[1][2] = <<"age">>
  /\ Count(log, "record.setProperties") = 1

\* C11: a dematerialization of a block that holds an active to-many
\* collection for r leaves the collection alive and moves it from the active
\* to the retained cache; a collection is destroyed only as the retained one,
\* when a getManyArray(r) creates a new active collection or the block is
\* destroyed; that getManyArray(r) returns a new collection, not the retained
\* one.
C11_RetainedOnDematerialize ==
  [][/\ (op'.name = "dematerializeRecord" /\ manyArrayCache["r"] # 0) =>
          /\ manyArrayCache'["r"] = 0
          /\ retainedCache'["r"] = manyArrayCache["r"]
          /\ arrays'[manyArrayCache["r"]] = "live"
     /\ \A a \in 1..Len(arrays) :
          (arrays[a] = "live" /\ arrays'[a] = "destroyed") =>
             /\ retainedCache["r"] = a
             /\ retainedCache'["r"] = 0
             /\ \/ isDestroyed'
                \/ manyArrayCache["r"] = 0 /\ manyArrayCache'["r"] > Len(arrays)
     /\ (op'.name = "getManyArray" /\ retainedCache["r"] # 0 /\ err'.kind = "none") =>
          /\ ret'.n > Len(arrays)
          /\ ret'.n = manyArrayCache'["r"]]_vars

\* The callbacks scheduled on the run loop's destroy queue and not yet run.
PendingTimers == {n \in 1..Len(timers) : timers[n] = "pending"}

\* C12: at most one orphan check is pending for the block at any time;
\* unloadRecord schedules one only when none is pending, and on a destroyed
\* block it sends nothing, dematerializes nothing and schedules nothing.
C12_OneScheduledDestroy ==
  /\ [](Cardinality(PendingTimers) <= 1)
  /\ [][op'.name = "unloadRecord" =>
          IF isDestroyed
          THEN err' = NoErr /\ log' = <<>> /\ UNCHANGED blockVars
          ELSE timers' # timers =>
                 /\ scheduledDestroy = 0
                 /\ PendingTimers = {}
                 /\ scheduledDestroy' = Len(timers')
                 /\ timers' = Append(timers, "pending")]_vars

\* unloadRecord, cancelDestroy, then unloadRecord twice: the second timer is
\* the only one pending.
C12_Witness ==
  /\ op.name = "unloadRecord"
  /\ err.kind = "none"
  /\ timers = <<"cancelled", "pending">>
  /\ scheduledDestroy = 2
  /\ Count(log, "modelData.unloadRecord") = 1

\* C13: destroySync on a block with no live facade returns normally in every
\* reachable state and leaves the block destroyed, out of the identity map,
\* not dematerializing and with no destroy scheduled.
C13_DestroySyncCompletes ==
  [][(op'.name = "destroySync" /\ (record = 0 \/ ~recAlive)) =>
       /\ err' = NoErr
       /\ isDestroyed'
       /\ ~inIdMap'
       /\ ~isDematerializing'
       /\ scheduledDestroy' = 0
       /\ PendingTimers' = {}]_vars

\* C14: a block becomes destroyed only with no live facade and with its
\* doNotDestroy flag false, by destroy, destroyFromModelData or destroySync.
C14_DestroyedOnlyWhenAllowed ==
  [][(~isDestroyed /\ isDestroyed') =>
       /\ op'.name \in {"destroy", "destroyFromModelData", "destroySync"}
       /\ record = 0 \/ ~recAlive
       /\ ~doNotDestroy]_vars

\* C15: destroy on a block whose facade is alive throws
\* DestroyWhileMaterialized before anything else: the block is not marked
\* destroying or destroyed, the retained collections are not destroyed and
\* the block stays in the identity map.
C15_DestroyWhileMaterialized ==
  [][(op'.name = "destroy" /\ record # 0 /\ recAlive) =>
       /\ err'.kind = "DestroyWhileMaterialized"
       /\ log' = <<>>
       /\ UNCHANGED blockVars]_vars

\* destroy was refused on a block with a facade that still retains a
\* collection of its earlier materialization.
C15_Witness ==
  /\ op.name = "destroy"
  /\ err.kind = "DestroyWhileMaterialized"
  /\ record # 0
  /\ retainedCache["r"] # 0
  /\ arrays[retainedCache["r"]] = "live"
  /\ ~isDestroying /\ ~isDestroyed /\ inIdMap

\* C16: cancelDestroy on a destroyed block throws and changes nothing; on
\* any other block it cancels the scheduled orphan check and clears the
\* dematerializing flag; a cancelled check never runs, and a getRecord right
\* after the cancellation yields a facade.
C16_CancelDestroy ==
  [][/\ op'.name = "cancelDestroy" =>
          IF isDestroyed
          THEN err'.kind = "Assertion" /\ log' = <<>> /\ UNCHANGED blockVars
          ELSE /\ err' = NoErr
               /\ scheduledDestroy' = 0
               /\ ~isDematerializing'
               /\ PendingTimers' = {}
               /\ \A n \in PendingTimers : timers'[n] = "cancelled"
     /\ \A n \in 1..Len(timers) : timers[n] = "cancelled" => timers'[n] = "cancelled"
     /\ (op.name = "cancelDestroy" /\ err.kind = "none" /\ op'.name = "getRecord") =>
          /\ err' = NoErr
          /\ record' # 0
          /\ recAlive'
          /\ ret'.n = record']_vars

\* The orphan check of an unloaded block, whose facade had been destroyed,
\* was cancelled.
C16_Witness ==
  /\ op.name = "cancelDestroy"
  /\ err.kind = "none"
  /\ \E n \in 1..Len(timers) : timers[n] = "cancelled"
  /\ created >= 1
  /\ record = 0
  /\ doNotDestroy

\* What C17 says of the call of reload and of the callbacks that run when
\* its promise settles.
ReloadSteps ==
  /\ op'.name = "reload" =>
       /\ err' = NoErr
       /\ isReloading'
       /\ Len(SelectSeq(log', LAMBDA e : e[1] = "send" /\ e[3] = "reloadRecord")) = 1
       /\ reloads' = Append(reloads, reloads'[Len(reloads')])
       /\ reloads'[Len(reloads')].outer = Pending
  /\ op'.name = "reload.then" =>
       LET n == op'.props[1]
       IN /\ reloads'[n].after = op'.a
          /\ IF op'.a = Resolved
             THEN ~isError' /\ error' = NullError
             ELSE isError' /\ error' = op'.a
  /\ op'.name = "reload.finally" =>
       LET n == op'.props[1]
       IN /\ ~isReloading'
          /\ Count(log', "recordDidChange") = 1
          /\ reloads'[n].outer = reloads[n].inner

\* C17 as stated: reload sets the reloading flag and sends reloadRecord; at
\* the settlement the flag is cleared and the membership tracker notified,
\* the error state cleared on success, the error recorded and the returned
\* promise rejected with it on failure; and the flag is true as long as a
\* reload has not settled.
C17_ReloadingUntilSettled ==
  [][/\ ReloadSteps
     /\ (\E n \in 1..Len(reloads') : reloads'[n].outer = Pending) => isReloading']_vars

\* C17, amended: as stated, but the flag stays true only until the first
\* settlement of a reload of the block or the first dematerialization of the
\* block: nothing else clears it.
C17_ReloadingUntilCleared ==
  [][/\ ReloadSteps
     /\ (isReloading /\ ~isReloading') =>
          op'.name \in {"reload.finally", "dematerializeRecord"}]_vars

\* A reload of a materialized record failed: the error is on the block, the
\* returned promise rejected with it and the flag is cleared.
C17_Witness ==
  /\ op.name = "reload.finally"
  /\ op.a = "e1"
  /\ record # 0
  /\ isError /\ error = "e1"
  /\ ~isReloading
  /\ reloads[op.props[1]].outer = "e1"

\* C18: with a promise wrapper cached for the async to-many relationship k,
\* notifyHasManyChange(k) and notifyPropertyChange(k) remove the wrapper, and
\* a getHasMany(k) that finds no wrapper creates one and issues exactly one
\* fetch.
C18_ChangeDropsWrapper ==
  [][/\ (/\ op'.name \in {"notifyHasManyChange", "notifyPropertyChange"}
         /\ op'.a \in RelKeys
         /\ isAsync[op'.a]
         /\ promisesCache[op'.a] # NoWrapper) =>
          promisesCache'[op'.a] = NoWrapper
     /\ (/\ op'.name = "getHasMany"
         /\ err'.kind = "none"
         /\ isAsync[op'.a]
         /\ promisesCache[op'.a] = NoWrapper) =>
          /\ wrappers' = wrappers + 1
          /\ promisesCache'[op'.a].w = wrappers'
          /\ ret' = Ret("promiseArray", wrappers', "")
          /\ Len(fetchState') = Len(fetchState) + 1
          /\ Count(log', "store._findHasManyByJsonApiResource") = 1]_vars

\* The cached wrapper of `key` waits for a fetch that has not settled.
InFlight(key) ==
  promisesCache[key] # NoWrapper /\ fetchState[promisesCache[key].promise] = "pending"

\* reloadHasMany while the fetch of the cached wrapper is in flight: no
\* fetch, nothing marked stale, the wrapper returned as it is.
ReloadInFlight ==
  (op'.name = "reloadHasMany" /\ InFlight(op'.a)) =>
    /\ err' = NoErr
    /\ log' = <<>>
    /\ ret' = Ret("promiseArray", promisesCache[op'.a].w, "")
    /\ UNCHANGED blockVars

\* C19 as stated: reloadHasMany(k) with a fetch in flight issues no fetch,
\* marks nothing stale and returns the wrapper; with none in flight it marks
\* k stale, and the next getHasMany(k) issues a fetch.
C19_ReloadFetchesOnNextAccess ==
  [][/\ ReloadInFlight
     /\ (op'.name = "reloadHasMany" /\ ~InFlight(op'.a) /\ err'.kind = "none") =>
          isStale'[op'.a]
     /\ (/\ op.name = "reloadHasMany" /\ ret.kind = "promise" /\ err.kind = "none"
         /\ op'.name = "getHasMany" /\ op'.a = op.a /\ isAsync[op.a]
         /\ err'.kind = "none") =>
          /\ Len(fetchState') = Len(fetchState) + 1
          /\ Count(log', "store._findHasManyByJsonApiResource") = 1]_vars

\* C19, amended: with none in flight reloadHasMany(k) marks k stale and
\* itself issues one fetch, whose promise it returns and puts into the cached
\* wrapper (a resolved one is kept, a missing one created); the next
\* getHasMany(k) returns that wrapper and issues no fetch.
C19_ReloadFetchesAtOnce ==
  [][/\ ReloadInFlight
     /\ (op'.name = "reloadHasMany" /\ ~InFlight(op'.a) /\ err'.kind = "none") =>
          LET k == op'.a
          IN /\ isStale'[k]
             /\ fetchState' = Append(fetchState, "pending")
             /\ Count(log', "store._findHasManyByJsonApiResource") = 1
             /\ ret' = Ret("promise", Len(fetchState'), "")
             /\ promisesCache'[k].promise = Len(fetchState')
             /\ promisesCache'[k].w =
                  (IF promisesCache[k] # NoWrapper THEN promisesCache[k].w
                   ELSE wrappers + 1)
     /\ (/\ op.name = "reloadHasMany" /\ err.kind = "none"
         /\ op'.name = "getHasMany" /\ op'.a = op.a /\ isAsync[op.a]
         /\ err'.kind = "none") =>
          /\ fetchState' = fetchState
          /\ promisesCache' = promisesCache
          /\ ret' = Ret("promiseArray", promisesCache[op.a].w, "")]_vars

\* reloadHasMany found a wrapper whose fetch had resolved: it issued the
\* second fetch and put it into that wrapper.
C19_Witness ==
  /\ op.name = "reloadHasMany"
  /\ ret = Ret("promise", 2, "")
  /\ fetchState = <<"resolved", "pending">>
  /\ promisesCache["r"].w = 1
  /\ promisesCache["r"].promise = 2
  /\ isStale["r"]

Fetches(l) ==
  Count(l, "store._findHasManyByJsonApiResource")
    + Count(l, "store._findBelongsToByJsonApiResource")

ProxyContentFollowsFetch ==
  /\ Len(belongsToProxies') >= Len(belongsToProxies)
  /\ \A i \in 1..Len(belongsToProxies) :
       LET before == belongsToProxies[i]
           after == belongsToProxies'[i]
       IN /\ after.promise = before.promise
          /\ after.content =
               (IF /\ fetchState[before.promise] = "pending"
                   /\ fetchState'[before.promise] = "resolved"
                THEN "loaded"
                ELSE before.content)

AsyncToOne(key) == key \in BelongsToKeys /\ AsyncOption[key] # "false"

PivotParents(state, pivotName) ==
  {k \in 0..(Len(state) - 1) : HasChild(SubSeq(state, 1, k), pivotName)}

\* C22: transitionTo to a target whose pivot is a child of a proper ancestor
\* of the current state runs the exit hooks of the current state and of its
\* ancestors below the nearest such ancestor, deepest first and once each,
\* before any enter hook, and does not exit that ancestor; the walk ends,
\* whether the plan is cached or not.
C22_ExitsUpToPivotParent ==
  [][(/\ op'.name = "transitionTo"
      /\ PivotParents(currentState, op'.props[1]) # {}) =>
       LET stops == PivotParents(currentState, op'.props[1])
           d == CHOOSE k \in stops : \A j \in stops : j <= k
           left == [i \in 1..(Len(currentState) - d) |->
                      SubSeq(currentState, 1, Len(currentState) - i + 1)]
           expected == SelectSeq(left, LAMBDA st : st \in hooks.exit)
           ran == Kinds(log', "exit")
       IN /\ Len(ran) = Len(expected)
          /\ \A i \in 1..Len(ran) : ran[i][2] = expected[i]
          /\ \A i, j \in 1..Len(log') :
               (log'[i][1] = "exit" /\ log'[j][1] = "enter") => i < j
          /\ err'.kind = "none"
          /\ Count(log', "TransitionChainMap.hit")
               + Count(log', "TransitionChainMap.miss") = 1
          /\ Under(currentState', SubSeq(currentState, 1, d))]_vars

\* A transition replayed from the cache that ran the exit hooks of two
\* states, then an enter hook.
C22_Witness ==
  /\ op.name = "transitionTo"
  /\ err.kind = "none"
  /\ Count(log, "TransitionChainMap.hit") = 1
  /\ Count(log, "exit") = 2
  /\ Count(log, "enter") >= 1

\* The operations that end a teardown: the scheduled cleanup, cancelDestroy,
\* and destroySync, which calls both.
EndsTeardown == {"_checkForOrphanedInternalModels", "cancelDestroy", "destroySync"}

\* C23: unloadRecord and dematerializeRecord start a teardown, which only
\* the scheduled cleanup or cancelDestroy ends; during it getRecord creates
\* no facade and returns none; right after it ended getRecord materializes
\* a facade that is none of the earlier ones.
C23_NoFacadeDuringTeardown ==
  [][/\ (/\ op'.name \in {"unloadRecord", "dematerializeRecord"}
         /\ err'.kind = "none" /\ ~isDestroyed) =>
          isDematerializing' /\ record' = 0
     /\ (isDematerializing /\ ~isDematerializing') => op'.name \in EndsTeardown
     /\ (isDematerializing /\ op'.name = "getRecord") =>
          /\ created' = created
          /\ record' = 0
          /\ ret' = Ret("record", 0, "")
          /\ Count(log', "create") = 0
     /\ (/\ op.name \in {"_checkForOrphanedInternalModels", "cancelDestroy"}
         /\ err.kind = "none" /\ record = 0
         /\ op'.name = "getRecord") =>
          /\ err'.kind = "none"
          /\ record' = created + 1
          /\ created' = created + 1
          /\ recAlive'
          /\ ret' = Ret("record", record', "")]_vars

\* The first facade was destroyed by unloadRecord, the scheduled cleanup
\* ran, and getRecord made the second facade.
C23_Witness ==
  /\ op.name = "getRecord"
  /\ record = 2
  /\ timers = <<"ran">>
  /\ ~isDematerializing

LiveFacade == record # 0 /\ recAlive

\* cancelDestroy leaves a cancellation on the block, which only it (and
\* destroySync, by calling it) sets; destroyFromModelData takes it and
\* destroys nothing; dematerializeRecord discards it.
CancellationConsumed ==
  /\ (op'.name = "cancelDestroy" /\ err'.kind = "none") => doNotDestroy'
  /\ (~doNotDestroy /\ doNotDestroy') => op'.name \in {"cancelDestroy", "destroySync"}
  /\ (op'.name = "destroyFromModelData" /\ doNotDestroy) =>
       /\ ~doNotDestroy'
       /\ err'.kind = "none"
       /\ log' = <<>>
       /\ isDestroyed' = isDestroyed /\ isDestroying' = isDestroying
       /\ inIdMap' = inIdMap
  /\ (op'.name = "dematerializeRecord") => ~doNotDestroy'

\* The step is a destroyFromModelData that follows one that took a
\* cancellation, or one that follows a dematerializeRecord.
CancellationGone ==
  /\ op'.name = "destroyFromModelData"
  /\ \/ op.name = "destroyFromModelData" /\ err.kind = "none" /\ log = <<>>
     \/ op.name = "dematerializeRecord"

\* C24 as stated: after cancelDestroy the next destroyFromModelData destroys
\* nothing and takes the cancellation, and the destroyFromModelData after
\* it destroys the block, as does the one after a dematerializeRecord.
C24_SecondDestroyDestroys ==
  [][/\ CancellationConsumed
     /\ CancellationGone =>
          /\ err'.kind = "none"
          /\ isDestroyed'
          /\ ~inIdMap']_vars

\* C24, amended: a destroyFromModelData that finds no cancellation destroys
\* the block when it has no live facade, and otherwise fails with
\* DestroyWhileMaterialized and leaves the block as it was.
C24_SecondDestroyDestroysUnlessMaterialized ==
  [][/\ CancellationConsumed
     /\ (op'.name = "destroyFromModelData" /\ ~doNotDestroy) =>
          IF LiveFacade
          THEN err'.kind = "DestroyWhileMaterialized" /\ UNCHANGED blockVars
          ELSE /\ err'.kind = "none"
               /\ isDestroyed'
               /\ ~inIdMap']_vars

\* cancelDestroy, a destroyFromModelData that destroyed nothing, and a
\* second one that destroyed the block.
C24_Witness ==
  /\ op.name = "destroyFromModelData"
  /\ isDestroyed
  /\ ~doNotDestroy
  /\ timers = <<"cancelled">>
  /\ created = 1

\* C25: the cleanup that unloadRecord scheduled, when the run loop runs it
\* uncancelled, runs once and leaves the block destroyed, out of the
\* identity map, not dematerializing and with no destroy scheduled.
C25_ScheduledCleanupDestroys ==
  [][op'.name = "_checkForOrphanedInternalModels" =>
       /\ \E n \in 1..Len(timers) :
            /\ timers[n] = "pending"
            /\ timers' = [timers EXCEPT ![n] = "ran"]
       /\ ~isDematerializing'
       /\ scheduledDestroy' = 0
       /\ isDestroyed'
       /\ ~inIdMap']_vars

\* C26: in every reachable state the error flag of the block is true
\* exactly when its error value is not null.
C26_ErrorFlagAgrees == isError <=> (error # NullError)

\* C27: between operations, the currentState of a materialized facade is
\* the currentState of its block, also right after a getRecord whose
\* properties were staged before the facade was created.
C27_FacadeStateIsBlockState == record # 0 => recState = currentState

\* C28: whenever a promise wrapper is cached for a key an active collection
\* exists for that key, and no wrapper is cached after a dematerialization.
C28_WrapperHasActiveCollection ==
  [][/\ \A key \in RelKeys :
          promisesCache'[key] # NoWrapper => manyArrayCache'[key] # 0
     /\ (op'.name = "dematerializeRecord" /\ err'.kind = "none") =>
          \A key \in RelKeys : promisesCache'[key] = NoWrapper]_vars

\* C29: once the block is destroyed, no destroySync, destroyFromModelData,
\* unloadRecord or scheduled cleanup removes it from the identity map again
\* or runs any other effect of destroy.
C29_DestroyedOnce ==
  [][(/\ isDestroyed
      /\ op'.name \in {"destroySync", "destroyFromModelData", "unloadRecord",
                       "_checkForOrphanedInternalModels"}) =>
       /\ Count(log', "store._removeFromIdMap") = 0
       /\ Count(log', "manyArray.destroy") = 0
       /\ isDestroyed' /\ isDestroying' = isDestroying
       /\ inIdMap' = inIdMap]_vars

====
